---- MODULE Spec2Model ----
(***************************************************************************)
(* taskforge: a dependency-aware task engine.                              *)
(*   src/src/taskforge/task.py       Task, TaskStatus                      *)
(*   src/src/taskforge/scheduler.py  Scheduler (graph, hooks, ready_tasks) *)
(*   src/src/taskforge/executor.py   Executor (one thread pool per tag)    *)
(*                                                                         *)
(* A task object is identified with its task_id (Task.__eq__ / __hash__).  *)
(* Threads: "main" is the thread that consumes Scheduler.ready_tasks (the  *)
(* caller of Executor.run, or a plain for-loop); pool workers run          *)
(* Task.execute_task.  Each worker step below is one shared-memory access  *)
(* of execute_task, so every interleaving of the accesses is explored.     *)
(***************************************************************************)
EXTENDS Integers, Sequences, FiniteSets, TLC

\* ------------------------------------------------------------- bounds
Tasks == {"A", "B", "C"}
Tags == {"default", "io"}
\* Executor(scheduler, workers_per_tag): the pool size used in the runs
workers_per_tag == 2
\* number of distinct tasks on which the user calls Task.cancel()
MaxUserCancels == 1
\* number of calls of Scheduler.schedule the user makes before iterating
MaxScheduleCalls == 4

\* ------------------------------------------------------------- TaskStatus
PENDING == "pending"
SCHEDULED == "scheduled"
RUNNING == "running"
FAILED == "failed"
COMPLETED == "completed"
CANCELED == "canceled"
TaskStatus == {PENDING, SCHEDULED, RUNNING, FAILED, COMPLETED, CANCELED}
\* the set literal of scheduler.py line 80
TerminalStatuses == {COMPLETED, FAILED, CANCELED}

VARIABLES
    \* ---- Task fields, one per task id
    dependencies,          \* Task.__dependencies
    task_tag,              \* Task.tag()
    task_status,           \* Task.__task_status
    task_result,           \* Task.__task_result: "None" | "value" | "exception"
    canceled_event,        \* Task.__canceled_event (is_set)
    callbacks,             \* TRUE when the three Scheduler callbacks are installed
    \* ---- Scheduler
    task_to_dependencies,  \* dict in insertion order: sequence of <<task, set>>
    task_to_dependents,    \* defaultdict(set): a missing key reads as {}
    condition,             \* owner of the Condition's RLock: "none" | "main"
    \* ---- the thread consuming ready_tasks
    consumer,              \* "executor" (Executor.run) | "sequential" (for-loop)
    dpc,                   \* its position
    ready_tasks,           \* local list ready_tasks of the generator
    scan,                  \* index of the dict entry the scan loop is at
    raised,                \* exception raised to the caller: "none" | name
    \* ---- Executor
    tag_to_thread_pool,    \* dict keys in insertion order: sequence of tags
    work_queue,            \* per tag: ThreadPoolExecutor's FIFO of submissions
    pool_shutdown,         \* per tag: ThreadPoolExecutor._shutdown
    shut,                  \* index of the pool Executor.shutdown is at
    \* ---- the thread running execute_task(t)
    wpc,                   \* its position, per task
    todo,                  \* dependents the hook's for-loop has still to visit
    \* ---- history
    user_cancelled,        \* tasks on which the user called cancel()
    late_cancel,           \* tasks on which cancel() was called while RUNNING
    early_cancel,          \* per task: who called cancel() before line 56 read the flag
    execute_calls,         \* number of calls of Task.execute, per task
    hook_log,              \* callbacks invoked on the task, in order
    yield_count,           \* number of times ready_tasks yielded the task
    schedule_calls,        \* number of calls of Scheduler.schedule so far
    last_schedule          \* the last call: its task, and whether it was registered

task_vars == <<dependencies, task_tag, task_status, task_result, canceled_event, callbacks>>
sched_vars == <<task_to_dependencies, task_to_dependents, condition>>
main_vars == <<consumer, dpc, ready_tasks, scan, raised>>
pool_vars == <<tag_to_thread_pool, work_queue, pool_shutdown, shut>>
worker_vars == <<wpc, todo>>
hist_vars == <<user_cancelled, late_cancel, early_cancel, execute_calls, hook_log, yield_count,
               schedule_calls, last_schedule>>
vars == <<task_vars, sched_vars, main_vars, pool_vars, worker_vars, hist_vars>>

\* ------------------------------------------------------------- helpers
Keys(dict) == {dict[i][1] : i \in DOMAIN dict}

Lookup(dict, task) == dict[CHOOSE i \in DOMAIN dict : dict[i][1] = task][2]

Range(seq) == {seq[i] : i \in DOMAIN seq}

\* a set visited in some iteration order
RECURSIVE SetToSeq(_)
SetToSeq(S) ==
    IF S = {} THEN <<>>
    ELSE LET x == CHOOSE y \in S : TRUE IN <<x>> \o SetToSeq(S \ {x})

\* ------------------------------------------------------------- Scheduler.schedule
\* faulty variant: the membership test looks at the other map
already_exists_in_dependents(dict, task) == task_to_dependents[task] # {}

\* scheduler.py line 22: task in self.__task_to_dependencies
already_exists(dict, task) == task \in Keys(dict)

\* scheduler.py lines 31-33, on values: the two maps after registering task
add_dependencies(dict, task, deps) ==
    IF task \in Keys(dict)
    THEN [i \in DOMAIN dict |-> IF dict[i][1] = task THEN <<task, deps>> ELSE dict[i]]
    ELSE Append(dict, <<task, deps>>)

\* faulty variant: the dependencies are put in the bucket of the task
add_dependents_reversed(dependents, task, deps) ==
    [p \in Tasks |-> IF p = task THEN dependents[p] \cup deps ELSE dependents[p]]

add_dependents(dependents, task, deps) ==
    [p \in Tasks |-> IF p \in deps THEN dependents[p] \cup {task} ELSE dependents[p]]

\* ------------------------------------------------------------- Scheduler.__has_cycles
\* the inner for-loop of lines 114-117 over the dependents of one task
RECURSIVE reduce_dependents(_, _, _)
reduce_dependents(ds, out_degree, ready_queue) ==
    IF ds = <<>> THEN <<out_degree, ready_queue>>
    ELSE LET dependent == Head(ds)
             degree == [out_degree EXCEPT ![dependent] = @ - 1]
         IN reduce_dependents(Tail(ds), degree,
                IF degree[dependent] = 0 THEN Append(ready_queue, dependent)
                ELSE ready_queue)

\* the while-loop of lines 109-117: the number of tasks processed
RECURSIVE processed_count(_, _, _, _)
processed_count(dependents, out_degree, ready_queue, count) ==
    IF ready_queue = <<>> THEN count
    ELSE LET task == Head(ready_queue)
             r == reduce_dependents(SetToSeq(dependents[task]), out_degree, Tail(ready_queue))
         IN processed_count(dependents, r[1], r[2], count + 1)

\* faulty variant: only the tasks without dependencies are processed
has_cycles_roots_only(dict, dependents) ==
    LET out_degree == [t \in Keys(dict) |-> Cardinality(Lookup(dict, t))]
    IN Cardinality({t \in Keys(dict) : out_degree[t] = 0}) # Len(dict)

\* faulty variant: a cycle is reported only when no task at all could be processed
has_cycles_nothing_processed(dict, dependents) ==
    LET out_degree == [t \in Keys(dict) |-> Cardinality(Lookup(dict, t))]
        keys == [i \in DOMAIN dict |-> dict[i][1]]
        ready_queue == SelectSeq(keys, LAMBDA t : out_degree[t] = 0)
    IN processed_count(dependents, out_degree, ready_queue, 0) = 0 /\ Len(dict) > 0

has_cycles(dict, dependents) ==
    LET out_degree == [t \in Keys(dict) |-> Cardinality(Lookup(dict, t))]
        keys == [i \in DOMAIN dict |-> dict[i][1]]
        ready_queue == SelectSeq(keys, LAMBDA t : out_degree[t] = 0)
    IN processed_count(dependents, out_degree, ready_queue, 0) # Len(dict)

\* Scheduler(tasks): schedule() for each task of the set, in its iteration order
RECURSIVE constructor(_, _, _, _)
constructor(order, deps, dict, dependents) ==
    IF order = <<>> THEN <<dict, dependents>>
    ELSE LET task == Head(order)
         IN constructor(Tail(order), deps,
                        add_dependencies(dict, task, deps[task]),
                        add_dependents(dependents, task, deps[task]))

\* ------------------------------------------------------------- Task
\* faulty variant: each call flips the flag
cancel_toggle(events, task) == [events EXCEPT ![task] = ~@]

\* Task.cancel: self.__canceled_event.set()
cancel(events, task) == [events EXCEPT ![task] = TRUE]

\* faulty variant: the status is left as it is
mark_as_scheduled_noop(status, task) == status

\* Task.mark_as_scheduled
mark_as_scheduled(status, task) == [status EXCEPT ![task] = SCHEDULED]

\* faulty variant: the cancel flag is not consulted
start_branch_ignoring_flag(is_set) == "r62"

\* execute_task line 56: the branch taken on the cancel flag
start_branch(is_set) == IF is_set THEN "r57" ELSE "r62"

\* execute_task lines 57, 62, 65, 70: the status each line writes
status_written(line) ==
    CASE line = "r57" -> CANCELED
      [] line = "r62" -> RUNNING
      [] line = "r65" -> COMPLETED
      [] line = "r70" -> FAILED

\* faulty variant: the cancel flag is read again when execute has finished
outcomes_recheck_cancel(t) == IF canceled_event[t] THEN {"r57"} ELSE {"r65", "r70"}

\* execute_task lines 63-70: self.execute() returns (line 65 is next) or raises
\* (line 70 is next); nothing else is consulted
outcomes(t) == {"r65", "r70"}

\* execute_task lines 64 and 69: the result stored before the status
result_written(line) == IF line = "r65" THEN "value" ELSE "exception"

\* faulty variant: the except branch calls the completed callback
callback_after_swapped(line) ==
    CASE line = "r57" -> "on_task_canceled"
      [] line = "r65" -> "on_task_completed"
      [] line = "r70" -> "on_task_completed"

\* execute_task lines 58-59, 66-67, 71-72: the callback invoked after the write
callback_after(line) ==
    CASE line = "r57" -> "on_task_canceled"
      [] line = "r65" -> "on_task_completed"
      [] line = "r70" -> "on_task_failed"

\* faulty variant: the canceled callback does not pass the cancellation on
cancel_fanout_failed_only(callback, dependents, task) ==
    IF callback = "on_task_failed" THEN dependents[task] ELSE {}

\* faulty variant: a failure cancels every other task, dependent or not
cancel_fanout_everyone(callback, dependents, task) ==
    IF callback = "on_task_completed" THEN {} ELSE Tasks \ {task}

\* faulty variant: the cancellation is passed upstream, to the dependencies
cancel_fanout_upstream(callback, dependents, task) ==
    IF callback = "on_task_completed" THEN {}
    ELSE {u \in DOMAIN dependents : task \in dependents[u]}

\* faulty variant: the completed callback fans out the cancellation too
cancel_fanout_always(callback, dependents, task) == dependents[task]

\* the dependents a callback cancels before it notifies (scheduler.py 35-53)
cancel_fanout(callback, dependents, task) ==
    IF callback = "on_task_completed" THEN {} ELSE dependents[task]

\* ------------------------------------------------------------- Scheduler.ready_tasks
\* faulty variant: the iterator goes on while a task is not terminal
has_unfinished_tasks(dict, status) == \E t \in Keys(dict) : status[t] \notin TerminalStatuses

\* line 68
has_pending_tasks(dict, status) == \E t \in Keys(dict) : status[t] = PENDING

\* faulty variant: a dependency that has started counts as finished
is_ready_started(status, task, deps) ==
    /\ status[task] = PENDING
    /\ \A dependency \in deps : status[dependency] \notin {PENDING, SCHEDULED}

\* faulty variant: the scan does not skip the tasks that are no longer PENDING
is_ready_ignoring_status(status, task, deps) ==
    \A dependency \in deps : status[dependency] \in TerminalStatuses

\* lines 75-85: one iteration of the scan loop decides whether task is ready
is_ready(status, task, deps) ==
    /\ status[task] = PENDING
    /\ \A dependency \in deps : status[dependency] \in TerminalStatuses

\* execute_task of the task has not yet read the cancel flag (line 56)
not_started(pc) == pc \in {"new", "queued", "r56"}

\* ------------------------------------------------------------- Executor
\* tasks of a tag that a pool thread is executing
Active(tag) == {t \in Tasks : task_tag[t] = tag /\ wpc[t] \notin {"new", "queued", "done"}}

\* faulty variant: the pool starts a thread for every submission
free_workers_unbounded(tag) == workers_per_tag

\* ThreadPoolExecutor(max_workers=workers_per_tag): threads not executing a task
free_workers(tag) == workers_per_tag - Cardinality(Active(tag))

\* t is among the oldest submissions, as many as there are free threads
may_start(queue, t, free) == \E i \in DOMAIN queue : queue[i] = t /\ i <= free

\* faulty variant: shutdown(wait=False)
joined_no_wait(queue, active) == TRUE

\* executor.py line 33, pool.shutdown(wait=True): returns when the pool's
\* threads have drained the queue and finished what they were executing
joined(queue, active) == queue = <<>> /\ active = {}

\* faulty variant: shutdown is called inside the for-loop
may_shutdown_in_loop(pc) == pc \in {"shutdown", "yield"}

\* executor.py lines 27-28: shutdown() is called in the finally block, when the
\* for-loop over ready_tasks is over
may_shutdown(pc) == pc = "shutdown"

\* faulty variant: a pool is created at every call
ensure_thread_pool_always(pools, tag) == Append(pools, tag)

\* __ensure_thread_pool: the dict keys after the lookup
ensure_thread_pool(pools, tag) == IF tag \in Range(pools) THEN pools ELSE Append(pools, tag)

\* faulty variant: the executor too waits for the task it has just submitted
ConsumerTurnBlocking == \A t \in Tasks : wpc[t] \in {"new", "done"}

\* the for-body of the sequential consumer has finished (the generator is
\* resumed only between two calls of execute_task)
ConsumerTurn == consumer = "sequential" => \A t \in Tasks : wpc[t] \in {"new", "done"}

\* faulty variant: the notification is lost
notify_all_lost(pc) == pc

\* Condition.notify_all under the lock: a thread blocked in wait() is woken
notify_all(pc) == IF pc = "wait" THEN "woken" ELSE pc

\* the thread may enter "with self.__condition": the RLock is free, or is
\* held by this very thread (the sequential consumer runs the hooks itself)
may_enter(owner) == owner = "none" \/ (owner = "main" /\ consumer = "sequential")

\* ------------------------------------------------------------- initial states
\* the tags of the tasks: all on one pool (the pool's threads are contended),
\* or the last registered task on a pool of its own
TagChoices ==
    {[t \in Tasks |-> "default"], [t \in Tasks |-> IF t = "C" THEN "io" ELSE "default"]}

\* Scheduler(tasks) registers the tasks in the iteration order of a Python set,
\* which the ids decide.  The ids are arbitrary names and the graph below ranges
\* over every dependency map, so one order stands for all of them: renaming
\* the tasks turns any (graph, order) into (some graph, <<A, B, C>>).
RegistrationOrders == {SetToSeq(Tasks)}

FreshTasks ==
    /\ dependencies \in [Tasks -> SUBSET Tasks]
    /\ task_tag \in TagChoices
    /\ task_status = [t \in Tasks |-> PENDING]
    /\ task_result = [t \in Tasks |-> "None"]
    /\ canceled_event = [t \in Tasks |-> FALSE]

Idle ==
    /\ condition = "none"
    /\ consumer \in {"executor", "sequential"}
    /\ consumer = "sequential" => task_tag = [t \in Tasks |-> "default"]   \* no pools
    /\ dpc = "init"
    /\ ready_tasks = <<>>
    /\ scan = 1
    /\ raised = "none"
    /\ tag_to_thread_pool = <<>>
    /\ work_queue = [g \in Tags |-> <<>>]
    /\ pool_shutdown = [g \in Tags |-> FALSE]
    /\ shut = 1
    /\ wpc = [t \in Tasks |-> "new"]
    /\ todo = [t \in Tasks |-> {}]
    /\ user_cancelled = {}
    /\ late_cancel = {}
    /\ early_cancel = [t \in Tasks |-> {}]
    /\ execute_calls = [t \in Tasks |-> 0]
    /\ hook_log = [t \in Tasks |-> <<>>]
    /\ yield_count = [t \in Tasks |-> 0]
    /\ schedule_calls = 0
    /\ last_schedule = [task |-> "A", existed |-> FALSE]

\* Scheduler(tasks) with every task of the graph in the set
Init ==
    /\ FreshTasks
    /\ Idle
    /\ callbacks = [t \in Tasks |-> TRUE]
    /\ \E order \in RegistrationOrders :
          LET g == constructor(order, dependencies, <<>>, [t \in Tasks |-> {}])
          IN /\ task_to_dependencies = g[1]
             /\ task_to_dependents = g[2]

\* Scheduler(): nothing registered yet
InitSchedule ==
    /\ FreshTasks
    /\ task_tag = [t \in Tasks |-> "default"]
    /\ Idle
    /\ callbacks = [t \in Tasks |-> FALSE]
    /\ task_to_dependencies = <<>>
    /\ task_to_dependents = [t \in Tasks |-> {}]

\* Scheduler(tasks) with some of the tasks only; the user drives the iterator
\* with a for-loop and calls execute_task itself on the tasks it left out
InitPartial ==
    /\ FreshTasks
    /\ task_tag = [t \in Tasks |-> "default"]
    /\ Idle
    /\ consumer = "sequential"
    /\ \E registered \in SUBSET Tasks :
          LET g == constructor(SetToSeq(registered), dependencies, <<>>, [t \in Tasks |-> {}])
          IN /\ callbacks = [t \in Tasks |-> t \in registered]
             /\ task_to_dependencies = g[1]
             /\ task_to_dependents = g[2]

\* ------------------------------------------------------------- Scheduler.schedule
\* schedule(task) for a task object whose id is task and whose declared
\* dependencies are deps (scheduler.py lines 21-33)
schedule_call(task, deps) ==
    /\ dpc = "init"
    /\ schedule_calls < MaxScheduleCalls
    /\ schedule_calls' = schedule_calls + 1
    /\ last_schedule' = [task |-> task, existed |-> task \in Keys(task_to_dependencies)]
    /\ IF already_exists(task_to_dependencies, task)
       THEN /\ raised' = "SchedulingException"
            /\ UNCHANGED <<callbacks, task_to_dependencies, task_to_dependents>>
       ELSE /\ raised' = "none"
            /\ callbacks' = [callbacks EXCEPT ![task] = TRUE]
            /\ task_to_dependencies' = add_dependencies(task_to_dependencies, task, deps)
            /\ task_to_dependents' = add_dependents(task_to_dependents, task, deps)
    /\ UNCHANGED <<dependencies, task_tag, task_status, task_result, canceled_event,
                   condition, consumer, dpc, ready_tasks, scan, pool_vars, worker_vars,
                   user_cancelled, late_cancel, early_cancel, execute_calls, hook_log, yield_count>>

\* the user registers the task object it built
schedule(task) == schedule_call(task, dependencies[task])

\* the user registers another object with the id of a registered task
schedule_twin(task, deps) ==
    /\ task \in Keys(task_to_dependencies)
    /\ schedule_call(task, deps)

\* ------------------------------------------------------------- the consumer thread
\* first next() of the generator: scheduler.py lines 62-65; on the exception
\* Executor.run goes to its finally block (executor.py lines 27-28)
first_next ==
    /\ dpc = "init"
    /\ IF has_cycles(task_to_dependencies, task_to_dependents)
       THEN /\ raised' = "SchedulingException"
            /\ dpc' = IF consumer = "executor" THEN "shutdown" ELSE "returned"
            /\ UNCHANGED condition
       ELSE /\ condition' = "main"
            /\ dpc' = "check"
            /\ UNCHANGED raised
    /\ UNCHANGED <<task_vars, task_to_dependencies, task_to_dependents, consumer,
                   ready_tasks, scan, pool_vars, worker_vars, hist_vars>>

\* lines 67-70: return when nothing is PENDING, else start the scan
check_pending ==
    /\ dpc = "check"
    /\ ConsumerTurn
    /\ IF has_pending_tasks(task_to_dependencies, task_status)
       THEN /\ dpc' = "scan"
            /\ UNCHANGED condition
       ELSE /\ dpc' = IF consumer = "executor" THEN "shutdown" ELSE "returned"
            /\ condition' = "none"
    /\ scan' = 1
    /\ ready_tasks' = <<>>
    /\ UNCHANGED <<task_vars, task_to_dependencies, task_to_dependents, consumer,
                   raised, pool_vars, worker_vars, hist_vars>>

\* lines 74-85, one dict entry; after the last entry lines 87 and 91-93
scan_task ==
    /\ dpc = "scan"
    /\ LET task == task_to_dependencies[scan][1]
           deps == task_to_dependencies[scan][2]
           found == IF is_ready(task_status, task, deps)
                    THEN Append(ready_tasks, task) ELSE ready_tasks
       IN /\ ready_tasks' = found
          /\ IF scan < Len(task_to_dependencies)
             THEN /\ scan' = scan + 1
                  /\ UNCHANGED <<dpc, condition>>
             ELSE /\ scan' = 1
                  /\ IF found # <<>>
                     THEN /\ dpc' = "yield"
                          /\ UNCHANGED condition
                     ELSE /\ dpc' = "wait"          \* Condition.wait releases the lock
                          /\ condition' = "none"
    /\ UNCHANGED <<task_vars, task_to_dependencies, task_to_dependents, consumer,
                   raised, pool_vars, worker_vars, hist_vars>>

\* lines 88-90 for one task of the batch, and the consumer's use of it:
\* executor.py lines 24-26 (submit to the pool of its tag), or the for-body
\* task.execute_task() of the sequential consumer
yield_task ==
    /\ dpc = "yield"
    /\ ConsumerTurn
    /\ LET task == Head(ready_tasks)
           tag == task_tag[task]
       IN /\ task_status' = mark_as_scheduled(task_status, task)
          /\ yield_count' = [yield_count EXCEPT ![task] = @ + 1]
          /\ ready_tasks' = Tail(ready_tasks)
          /\ IF consumer = "sequential"
             THEN /\ wpc' = [wpc EXCEPT ![task] = "r56"]
                  /\ dpc' = IF Tail(ready_tasks) = <<>> THEN "check" ELSE "yield"
                  /\ UNCHANGED <<tag_to_thread_pool, work_queue, raised, condition>>
             ELSE /\ tag_to_thread_pool' = ensure_thread_pool(tag_to_thread_pool, tag)
                  /\ IF pool_shutdown[tag]
                     THEN /\ raised' = "RuntimeError"     \* submit after shutdown
                          /\ dpc' = "shutdown"
                          /\ condition' = "none"
                          /\ UNCHANGED <<work_queue, wpc>>
                     ELSE /\ work_queue' = [work_queue EXCEPT ![tag] = Append(@, task)]
                          /\ wpc' = [wpc EXCEPT ![task] = "queued"]
                          /\ dpc' = IF Tail(ready_tasks) = <<>> THEN "check" ELSE "yield"
                          /\ UNCHANGED <<raised, condition>>
    /\ UNCHANGED <<dependencies, task_tag, task_result, canceled_event, callbacks,
                   task_to_dependencies, task_to_dependents, consumer, scan,
                   pool_shutdown, shut, todo, user_cancelled, late_cancel, early_cancel,
                   execute_calls, hook_log, schedule_calls, last_schedule>>

\* Condition.wait returns: the notified thread takes the lock again (line 93)
reacquire ==
    /\ dpc = "woken"
    /\ condition = "none"
    /\ condition' = "main"
    /\ dpc' = "check"
    /\ UNCHANGED <<task_vars, task_to_dependencies, task_to_dependents, consumer,
                   ready_tasks, scan, raised, pool_vars, worker_vars, hist_vars>>

\* Executor.shutdown, executor.py lines 32-33: pool.shutdown sets the flag ...
shutdown_pool ==
    /\ may_shutdown(dpc)
    /\ shut <= Len(tag_to_thread_pool)
    /\ pool_shutdown' = [pool_shutdown EXCEPT ![tag_to_thread_pool[shut]] = TRUE]
    /\ dpc' = "join"
    /\ UNCHANGED <<task_vars, sched_vars, consumer, ready_tasks, scan, raised,
                   tag_to_thread_pool, work_queue, shut, worker_vars, hist_vars>>

\* ... and with wait=True joins the pool's threads, which drain the queue first
join_pool ==
    /\ dpc = "join"
    /\ joined(work_queue[tag_to_thread_pool[shut]], Active(tag_to_thread_pool[shut]))
    /\ shut' = shut + 1
    /\ dpc' = "shutdown"
    /\ UNCHANGED <<task_vars, sched_vars, consumer, ready_tasks, scan, raised,
                   tag_to_thread_pool, work_queue, pool_shutdown, worker_vars, hist_vars>>

\* Executor.run returns (or re-raises the exception of the iterator)
run_returns ==
    /\ dpc = "shutdown"
    /\ shut > Len(tag_to_thread_pool)
    /\ dpc' = "returned"
    /\ UNCHANGED <<task_vars, sched_vars, consumer, ready_tasks, scan, raised,
                   pool_vars, worker_vars, hist_vars>>

\* ------------------------------------------------------------- Task.execute_task
\* A pool thread has taken the submission of t from the FIFO and reads the
\* cancel flag, line 56: if self.__canceled_event.is_set().  Taking a work
\* item touches nothing the other threads read, so it is one step with the
\* read; the free threads hold the oldest submissions, in no particular order.
start(t) ==
    /\ wpc[t] = "queued"
    /\ may_start(work_queue[task_tag[t]], t, free_workers(task_tag[t]))
    /\ work_queue' = [work_queue EXCEPT ![task_tag[t]] = SelectSeq(@, LAMBDA x : x # t)]
    /\ wpc' = [wpc EXCEPT ![t] = start_branch(canceled_event[t])]
    /\ UNCHANGED <<task_vars, sched_vars, main_vars, tag_to_thread_pool, pool_shutdown,
                   shut, todo, hist_vars>>

\* the for-body of the sequential consumer: task.execute_task() reads the flag
start_inline(t) ==
    /\ wpc[t] = "r56"
    /\ wpc' = [wpc EXCEPT ![t] = start_branch(canceled_event[t])]
    /\ UNCHANGED <<task_vars, sched_vars, main_vars, pool_vars, todo, hist_vars>>

\* the user calls execute_task() on a task that no scheduler knows (task.py
\* line 51), on the thread that also runs the for-loop
direct_call(t) ==
    /\ t \notin Keys(task_to_dependencies)
    /\ \A u \in Tasks : wpc[u] \in {"new", "done"}
    /\ wpc[t] = "new"
    /\ wpc' = [wpc EXCEPT ![t] = "r56"]
    /\ UNCHANGED <<task_vars, sched_vars, main_vars, pool_vars, todo, hist_vars>>

\* the terminal status is written at line 57, 65 or 70; then the callback is
\* called when one is installed (lines 58-59, 66-67, 71-72)
enter_callback(t, line) ==
    IF callbacks[t]
    THEN /\ wpc' = [wpc EXCEPT ![t] = callback_after(line)]
         /\ todo' = [todo EXCEPT ![t] = cancel_fanout(callback_after(line), task_to_dependents, t)]
         /\ hook_log' = [hook_log EXCEPT ![t] = Append(@, callback_after(line))]
    ELSE /\ wpc' = [wpc EXCEPT ![t] = "done"]
         /\ UNCHANGED <<todo, hook_log>>

\* line 57: self.__task_status = TaskStatus.CANCELED
set_canceled(t) ==
    /\ wpc[t] = "r57"
    /\ task_status' = [task_status EXCEPT ![t] = status_written("r57")]
    /\ enter_callback(t, "r57")
    /\ UNCHANGED <<dependencies, task_tag, task_result, canceled_event, callbacks,
                   sched_vars, main_vars, pool_vars, user_cancelled, late_cancel, early_cancel,
                   execute_calls, yield_count, schedule_calls, last_schedule>>

\* line 62: self.__task_status = TaskStatus.RUNNING
set_running(t) ==
    /\ wpc[t] = "r62"
    /\ task_status' = [task_status EXCEPT ![t] = status_written("r62")]
    /\ wpc' = [wpc EXCEPT ![t] = "r64"]
    /\ UNCHANGED <<dependencies, task_tag, task_result, canceled_event, callbacks,
                   sched_vars, main_vars, pool_vars, todo, user_cancelled, late_cancel, early_cancel,
                   execute_calls, hook_log, yield_count, schedule_calls, last_schedule>>

\* lines 64-65, or 68-70 when execute raises: the result, then the status.
\* No other thread reads the result during the run, so the two writes are
\* one step, taken when the status is written.
execute(t) ==
    /\ wpc[t] = "r64"
    /\ \E line \in outcomes(t) :
          /\ task_result' = [task_result EXCEPT ![t] = result_written(line)]
          /\ task_status' = [task_status EXCEPT ![t] = status_written(line)]
          /\ enter_callback(t, line)
    /\ execute_calls' = [execute_calls EXCEPT ![t] = @ + 1]
    /\ UNCHANGED <<dependencies, task_tag, canceled_event, callbacks,
                   sched_vars, main_vars, pool_vars, user_cancelled, late_cancel, early_cancel,
                   yield_count, schedule_calls, last_schedule>>

\* scheduler.py lines 41-42 and 48-49: dependent.cancel() for one dependent
\* (todo is empty in the completed callback, which has no such loop)
hook_cancel(t, dependent) ==
    /\ wpc[t] \in {"on_task_completed", "on_task_failed", "on_task_canceled"}
    /\ dependent \in todo[t]
    /\ canceled_event' = cancel(canceled_event, dependent)
    /\ todo' = [todo EXCEPT ![t] = @ \ {dependent}]
    /\ late_cancel' = IF task_status[dependent] = RUNNING
                      THEN late_cancel \cup {dependent} ELSE late_cancel
    /\ early_cancel' = IF not_started(wpc[dependent])
                       THEN [early_cancel EXCEPT ![dependent] = @ \cup {"hook"}]
                       ELSE early_cancel
    /\ UNCHANGED <<dependencies, task_tag, task_status, task_result, callbacks,
                   sched_vars, main_vars, pool_vars, wpc, user_cancelled,
                   execute_calls, hook_log, yield_count, schedule_calls, last_schedule>>

\* scheduler.py lines 36-37, 44-45, 51-52: with self.__condition: notify_all();
\* the callback and execute_task then return
hook_notify(t) ==
    /\ wpc[t] \in {"on_task_completed", "on_task_failed", "on_task_canceled"}
    /\ todo[t] = {}
    /\ may_enter(condition)
    /\ dpc' = notify_all(dpc)
    /\ wpc' = [wpc EXCEPT ![t] = "done"]
    /\ UNCHANGED <<task_vars, sched_vars, consumer, ready_tasks, scan, raised,
                   pool_vars, todo, hist_vars>>

\* ------------------------------------------------------------- the user
\* task.cancel() from any thread at any time
user_cancel(t) ==
    /\ Cardinality(user_cancelled \cup {t}) <= MaxUserCancels
    /\ canceled_event' = cancel(canceled_event, t)
    /\ user_cancelled' = user_cancelled \cup {t}
    /\ late_cancel' = IF task_status[t] = RUNNING
                      THEN late_cancel \cup {t} ELSE late_cancel
    /\ early_cancel' = IF not_started(wpc[t])
                       THEN [early_cancel EXCEPT ![t] = @ \cup {"user"}]
                       ELSE early_cancel
    /\ UNCHANGED <<dependencies, task_tag, task_status, task_result, callbacks,
                   sched_vars, main_vars, pool_vars, worker_vars,
                   execute_calls, hook_log, yield_count, schedule_calls, last_schedule>>

\* ------------------------------------------------------------- specifications
\* the steps of the engine's threads
Engine ==
    \/ first_next
    \/ check_pending
    \/ scan_task
    \/ yield_task
    \/ reacquire
    \/ shutdown_pool
    \/ join_pool
    \/ run_returns
    \/ \E t \in Tasks : start(t)
    \/ \E t \in Tasks : start_inline(t)
    \/ \E t \in Tasks : set_canceled(t)
    \/ \E t \in Tasks : set_running(t)
    \/ \E t \in Tasks : execute(t)
    \/ \E t \in Tasks, dependent \in Tasks : hook_cancel(t, dependent)
    \/ \E t \in Tasks : hook_notify(t)

Next ==
    \/ Engine
    \/ \E t \in Tasks : user_cancel(t)

Spec == Init /\ [][Next]_vars

\* Every thread of the engine that can take a step is eventually scheduled,
\* and Task.execute returns or raises; the user is not obliged to do anything.
SpecFair == Spec /\ WF_vars(Engine)

NextSchedule ==
    \/ \E t \in Tasks : schedule(t)
    \/ \E t \in Tasks, deps \in SUBSET Tasks : schedule_twin(t, deps)
    \/ first_next

SpecSchedule == InitSchedule /\ [][NextSchedule]_vars

\* a scheduler that knows only some of the tasks, driven by a for-loop
NextPartial ==
    \/ first_next
    \/ check_pending
    \/ scan_task
    \/ yield_task
    \/ \E t \in Tasks : direct_call(t)
    \/ \E t \in Tasks : start_inline(t)
    \/ \E t \in Tasks : set_canceled(t)
    \/ \E t \in Tasks : set_running(t)
    \/ \E t \in Tasks : execute(t)
    \/ \E t \in Tasks, dependent \in Tasks : hook_cancel(t, dependent)
    \/ \E t \in Tasks : hook_notify(t)

SpecPartial == InitPartial /\ [][NextPartial]_vars

\* ------------------------------------------------------------- graph notions
\* the prerequisites reachable from the tasks of S in at most n more steps
RECURSIVE Closure(_, _)
Closure(S, n) ==
    IF n = 0 THEN S
    ELSE Closure(S \cup UNION {dependencies[x] : x \in S}, n - 1)

\* the transitive prerequisites of t, as the user declared them
Prerequisites(t) == Closure(dependencies[t], Cardinality(Tasks))

TransitiveDependents(u) == {v \in Tasks : u \in Prerequisites(v)}

DirectedCycle == \E t \in Tasks : t \in Prerequisites(t)

Registered == Keys(task_to_dependencies)

ExecutorRun == consumer = "executor"

RunReturned == ExecutorRun /\ dpc = "returned" /\ raised = "none"

\* ------------------------------------------------------------- properties
\* C1: in every reachable state of a run (sequential consumer or Executor.run)
\* over an acyclic, fully registered graph, a task that has left PENDING has
\* all its prerequisites in a terminal state.
C1_LeftPendingAfterPrerequisites ==
    (~DirectedCycle /\ Registered = Tasks) =>
        \A t \in Tasks :
            task_status[t] # PENDING =>
                \A p \in dependencies[t] : task_status[p] \in TerminalStatuses

C1_Witness ==
    /\ ExecutorRun
    /\ \E t \in Tasks, u \in Tasks :
          /\ t # u
          /\ dependencies[t] # {} /\ task_status[t] = RUNNING
          /\ dependencies[u] # {} /\ task_status[u] = PENDING

C1_WitnessSequential ==
    /\ consumer = "sequential"
    /\ \E t \in Tasks : dependencies[t] # {} /\ task_status[t] = COMPLETED

\* C2: under Executor.run no task is COMPLETED while one of its prerequisites
\* is FAILED or CANCELED.
C2_CompletedAfterCompleted ==
    ExecutorRun =>
        \A t \in Tasks :
            task_status[t] = COMPLETED =>
                \A p \in dependencies[t] : task_status[p] \notin {FAILED, CANCELED}

\* C3: when Executor.run returns, every transitive dependent of a FAILED task
\* is CANCELED, with no result and its execute never called.
C3_FailureCascades ==
    RunReturned =>
        \A u \in Tasks :
            task_status[u] = FAILED =>
                \A v \in TransitiveDependents(u) :
                    /\ task_status[v] = CANCELED
                    /\ task_result[v] = "None"
                    /\ execute_calls[v] = 0

\* C4: Executor.run does not raise because a task's execute raised (it raises
\* only before any execute was called), and when it returns every task with
\* no FAILED or CANCELED transitive prerequisite, not cancelled by the user,
\* and whose own execute did not raise, is COMPLETED.
C4_FailureIsolation ==
    /\ (ExecutorRun /\ raised # "none") => \A t \in Tasks : execute_calls[t] = 0
    /\ RunReturned =>
          \A t \in Tasks :
              ( /\ \A p \in Prerequisites(t) : task_status[p] \notin {FAILED, CANCELED}
                /\ t \notin user_cancelled
                /\ task_status[t] # FAILED )
              => task_status[t] = COMPLETED

C4_Witness ==
    /\ RunReturned
    /\ user_cancelled = {}
    /\ \E u \in Tasks, v \in Tasks, t \in Tasks :
          /\ task_status[u] = FAILED
          /\ v \in TransitiveDependents(u) /\ task_status[v] = CANCELED
          /\ t \notin TransitiveDependents(u) /\ task_status[t] = COMPLETED

\* C5: under fair scheduling Executor.run over an acyclic graph eventually
\* returns, and when it has returned every task is terminal and every pool the
\* executor created is shut down, with nothing queued or executing.
C5_RunTerminates ==
    /\ (ExecutorRun /\ ~DirectedCycle) => <>RunReturned
    /\ [](RunReturned =>
            /\ \A t \in Tasks : task_status[t] \in TerminalStatuses /\ wpc[t] = "done"
            /\ \A i \in DOMAIN tag_to_thread_pool :
                  /\ pool_shutdown[tag_to_thread_pool[i]]
                  /\ work_queue[tag_to_thread_pool[i]] = <<>>)

C5_Witness ==
    /\ RunReturned
    /\ Len(tag_to_thread_pool) = 2
    /\ \A t \in Tasks : task_status[t] \in TerminalStatuses
    /\ \A g \in Tags : pool_shutdown[g]

\* C6: the readiness iterator ends its sequence exactly when no registered
\* task is PENDING: whenever it has ended nothing is PENDING, and each time it
\* evaluates line 67-70 it ends if and only if nothing is PENDING at that moment
\* (tasks may still be SCHEDULED or RUNNING).
IterEnded == dpc \in {"shutdown", "join", "returned"} /\ raised = "none"

SomePending == \E t \in Registered : task_status[t] = PENDING

C6_IteratorEndsIffNoPending ==
    /\ [](IterEnded => ~SomePending)
    /\ [][(dpc = "check" /\ dpc' # "check") => (IterEnded' <=> ~SomePending)]_vars

C6_Witness ==
    /\ IterEnded
    /\ \E t \in Tasks : task_status[t] = SCHEDULED
    /\ \E t \in Tasks : task_status[t] = RUNNING

\* C7: when the registered graph has a directed cycle (a self-dependency
\* included), the first use of the iterator raises SchedulingException; nothing
\* is yielded, no status leaves PENDING, and Executor.run creates no pool and
\* dispatches nothing before it propagates the error.
C7_CycleRejected ==
    DirectedCycle =>
        /\ dpc # "init" => raised = "SchedulingException"
        /\ dpc \in {"init", "shutdown", "returned"}
        /\ tag_to_thread_pool = <<>>
        /\ \A t \in Tasks :
              /\ task_status[t] = PENDING
              /\ yield_count[t] = 0
              /\ wpc[t] = "new"

C7_Witness ==
    /\ DirectedCycle
    /\ \A t \in Tasks : t \notin dependencies[t]
    /\ \E t \in Tasks : dependencies[t] = {}
    /\ ExecutorRun
    /\ dpc = "returned"
    /\ raised = "SchedulingException"

\* C8: a call of schedule with a task whose id is already registered raises
\* SchedulingException and leaves the two maps and the callbacks unchanged.
C8_DuplicateRejected ==
    [][(schedule_calls' = schedule_calls + 1 /\ last_schedule'.existed) =>
          /\ raised' = "SchedulingException"
          /\ UNCHANGED <<task_to_dependencies, task_to_dependents, callbacks>>]_vars

C8_Witness ==
    /\ schedule_calls > 1
    /\ last_schedule.existed
    /\ raised = "SchedulingException"
    /\ Len(task_to_dependencies) = 2

\* C9: every status change is one of PENDING->SCHEDULED, SCHEDULED->RUNNING,
\* SCHEDULED->CANCELED, RUNNING->COMPLETED, RUNNING->FAILED, and once a task is
\* terminal neither its status nor its result changes.
LifecycleSteps ==
    {<<PENDING, SCHEDULED>>, <<SCHEDULED, RUNNING>>, <<SCHEDULED, CANCELED>>,
     <<RUNNING, COMPLETED>>, <<RUNNING, FAILED>>}

RunOver == dpc = "returned" /\ raised = "none"

C11_CancelBeforeStart ==
    \A t \in Tasks :
        early_cancel[t] # {} =>
            /\ execute_calls[t] = 0
            /\ task_result[t] = "None"
            /\ task_status[t] \in {PENDING, SCHEDULED, CANCELED}
            /\ hook_log[t] \in {<<>>, <<"on_task_canceled">>}
            /\ RunOver => /\ task_status[t] = CANCELED
                          /\ hook_log[t] = <<"on_task_canceled">>

C11_Witness ==
    /\ RunReturned
    /\ \E t \in Tasks :
          /\ dependencies[t] = {}
          /\ early_cancel[t] = {"user"}
          /\ task_status[t] = CANCELED
          /\ \A u \in Tasks \ {t} : task_status[u] = COMPLETED

\* C12: in every reachable state a CANCELED task has a prerequisite that is
\* FAILED or CANCELED, or the user called cancel() on it before it started.
C12_CanceledIsJustified ==
    \A t \in Tasks :
        task_status[t] = CANCELED =>
            \/ \E p \in dependencies[t] : task_status[p] \in {FAILED, CANCELED}
            \/ "user" \in early_cancel[t]

C12_Witness ==
    \E t \in Tasks, u \in Tasks, v \in Tasks :
        /\ dependencies[t] = {} /\ task_status[t] = CANCELED /\ t \in user_cancelled
        /\ u \notin user_cancelled /\ task_status[u] = CANCELED
        /\ v \notin user_cancelled /\ task_status[v] = COMPLETED

\* C13: each task has at most one callback invoked on it; when one has been
\* invoked the task already has the terminal status the callback stands for,
\* and the result that goes with it; when the run is over exactly one callback
\* has been invoked on every task.
callback_of(status) ==
    CASE status = COMPLETED -> "on_task_completed"
      [] status = FAILED -> "on_task_failed"
      [] status = CANCELED -> "on_task_canceled"
      [] OTHER -> "none"

result_of(status) ==
    CASE status = COMPLETED -> "value"
      [] status = FAILED -> "exception"
      [] OTHER -> "None"

C13_OneMatchingCallback ==
    \A t \in Tasks :
        /\ Len(hook_log[t]) <= 1
        /\ hook_log[t] # <<>> =>
              /\ task_status[t] \in TerminalStatuses
              /\ hook_log[t][1] = callback_of(task_status[t])
              /\ task_result[t] = result_of(task_status[t])
        /\ RunOver => Len(hook_log[t]) = 1

C13_Witness ==
    /\ RunReturned
    /\ \E a \in Tasks, b \in Tasks, c \in Tasks :
          /\ hook_log[a] = <<"on_task_completed">>
          /\ hook_log[b] = <<"on_task_failed">>
          /\ hook_log[c] = <<"on_task_canceled">>

\* C14: under Executor.run at most workers_per_tag tasks of a tag are inside
\* execute_task at any time; a submitted task stays in its pool's queue until
\* a thread takes it (it leaves the queue only into execute_task), and the
\* queues are empty again and again, so every queued task is eventually taken.
C14_BoundedConcurrency ==
    /\ [](ExecutorRun => \A g \in Tags : Cardinality(Active(g)) <= workers_per_tag)
    /\ [](\A t \in Tasks :
            wpc[t] = "queued" <=> t \in Range(work_queue[task_tag[t]]))
    /\ [][\A t \in Tasks :
            wpc[t] = "queued" => wpc'[t] \in {"queued", "r57", "r62"}]_vars
    /\ []<>(\A t \in Tasks : wpc[t] # "queued")

C14_Witness ==
    /\ ExecutorRun
    /\ \E g \in Tags :
          /\ Cardinality(Active(g)) = workers_per_tag
          /\ work_queue[g] # <<>>
          /\ \A t \in Active(g) : task_status[t] = RUNNING

\* C15: cancel() is idempotent: applied twice it gives the flags it gives
\* applied once; a flag that is set is never cleared; and a call of cancel()
\* on a task whose flag is already set (by the user or by a callback, in any
\* state of the task) changes no flag, status, result, nor anything else the
\* scheduler, the executor or the running tasks read.
C15_CancelIdempotent ==
    /\ [](\A t \in Tasks :
            cancel(cancel(canceled_event, t), t) = cancel(canceled_event, t))
    /\ [][\A t \in Tasks : canceled_event[t] => canceled_event'[t]]_vars
    /\ [][ ( /\ canceled_event' = canceled_event
             /\ <<user_cancelled, late_cancel, early_cancel>>' #
                    <<user_cancelled, late_cancel, early_cancel>> )
           => UNCHANGED <<task_vars, sched_vars, main_vars, pool_vars, wpc>> ]_vars

C15_Witness ==
    \E t \in Tasks :
        /\ early_cancel[t] = {"user", "hook"}
        /\ task_status[t] = CANCELED
        /\ hook_log[t] = <<"on_task_canceled">>

\* C16: whenever the scan of ready_tasks evaluates a PENDING task and finds one
\* of its dependencies FAILED or CANCELED, the cancel flag of the task is
\* already set.
scanned_task == task_to_dependencies[scan][1]

scanned_dependencies == task_to_dependencies[scan][2]

C16_CascadeVisibleToScan ==
    (dpc = "scan" /\ task_status[scanned_task] = PENDING) =>
        ( (\E p \in scanned_dependencies : task_status[p] \in {FAILED, CANCELED})
          => canceled_event[scanned_task] )

\* the same for the sequential consumer alone, which runs the callbacks itself
\* before it resumes the generator
C16_SequentialScan == consumer = "sequential" => C16_CascadeVisibleToScan

\* C17: the readiness scan runs with the Condition's lock held by the
\* consuming thread, and every dependent.cancel() of a callback is executed
\* by a thread that holds the lock; in particular, under Executor.run, where
\* the callbacks run on pool threads, no callback cancels a dependent while
\* the consuming thread holds the lock.
InCallback(t) == wpc[t] \in {"on_task_completed", "on_task_failed", "on_task_canceled"}

CallbackCancels(t) == InCallback(t) /\ todo[t] # {} /\ todo'[t] # todo[t]

C17_UnderTheMutex ==
    /\ [](dpc \in {"check", "scan", "yield"} => condition = "main")
    /\ [][\A t \in Tasks :
            (ExecutorRun /\ CallbackCancels(t)) => condition # "main"]_vars

\* the part of C17 that the code does guarantee: the scan is under the lock
C17_ScanUnderTheMutex == dpc \in {"check", "scan", "yield"} => condition = "main"

\* C18: when one thread consumes ready_tasks and calls execute_task on each
\* task before it asks for the next, over an acyclic graph in which exactly one
\* task's execute raised (and the user cancels nothing), at the end that task
\* is FAILED, its transitive dependents are CANCELED and all others COMPLETED.
Failed == {t \in Tasks : task_status[t] = FAILED}

C18_SequentialCascade ==
    (consumer = "sequential" /\ RunOver /\ user_cancelled = {}) =>
        \A u \in Tasks :
            Failed = {u} =>
                \A t \in Tasks \ {u} :
                    task_status[t] = IF t \in TransitiveDependents(u)
                                     THEN CANCELED ELSE COMPLETED

C18_Witness ==
    /\ consumer = "sequential" /\ RunOver /\ user_cancelled = {}
    /\ \E u \in Tasks, v \in Tasks, w \in Tasks :
          /\ Failed = {u}
          /\ dependencies[v] = {u} /\ task_status[v] = CANCELED
          /\ dependencies[w] = {v} /\ task_status[w] = CANCELED

C18_WitnessBystander ==
    /\ consumer = "sequential" /\ RunOver /\ user_cancelled = {}
    /\ \E u \in Tasks, v \in Tasks, w \in Tasks :
          /\ Failed = {u}
          /\ dependencies[v] = {u} /\ task_status[v] = CANCELED
          /\ dependencies[w] = {} /\ task_status[w] = COMPLETED

\* C19: for every set of registered tasks whose dependencies are all
\* registered, registered in any order, __has_cycles returns True if and only
\* if the dependency relation has a directed cycle, and the first use of the
\* iterator raises exactly in that case: no acyclic graph is rejected.
RegisteredClosed == \A t \in Registered : dependencies[t] \subseteq Registered

CycleAmongRegistered == \E t \in Registered : t \in Prerequisites(t)

C19_CycleCheckExact ==
    RegisteredClosed =>
        /\ has_cycles(task_to_dependencies, task_to_dependents) <=> CycleAmongRegistered
        /\ dpc = "check" => ~CycleAmongRegistered
        /\ dpc \in {"shutdown", "returned"} => CycleAmongRegistered

C19_Witness ==
    /\ dpc = "check"
    /\ Registered = Tasks
    /\ task_to_dependencies[1][2] # {}
    /\ task_to_dependencies[2][2] # {}
    /\ task_to_dependencies[3][2] = {}

C19_WitnessCycle ==
    /\ dpc \in {"shutdown", "returned"}
    /\ Registered = Tasks
    /\ task_to_dependencies[1][2] = {}
    /\ \A t \in Tasks : t \notin dependencies[t]

\* C20: when a registered task has a dependency that was never registered
\* (the declared graph being acyclic), the iterator does not yield the task
\* while a dependency is not terminal, and it does not end, normally or with
\* an exception, leaving the task PENDING once all its dependencies are
\* terminal.
HasUnregisteredDependency(d) ==
    d \in Registered /\ \E p \in dependencies[d] : p \notin Registered

DependenciesTerminal(d) == \A p \in dependencies[d] : task_status[p] \in TerminalStatuses

C20_UnregisteredPrerequisite ==
    ~DirectedCycle =>
        \A d \in Tasks :
            HasUnregisteredDependency(d) =>
                /\ yield_count[d] > 0 => DependenciesTerminal(d)
                /\ ~(dpc = "returned" /\ task_status[d] = PENDING /\ DependenciesTerminal(d))

\* what the code does instead: __has_cycles counts the unregistered dependency
\* in the task's out-degree and never processes it, so it reports a cycle
C20_RejectedAsCycle ==
    (\E d \in Tasks : HasUnregisteredDependency(d)) =>
        /\ has_cycles(task_to_dependencies, task_to_dependents)
        /\ \A t \in Tasks : yield_count[t] = 0
        /\ dpc # "init" => (dpc = "returned" /\ raised = "SchedulingException")

\* C21: within one consumption of ready_tasks a task is yielded at most once;
\* the step that yields it takes it from PENDING to SCHEDULED before the
\* consumer gets it; and execute is called at most once on each task.
C21_NoReYield ==
    /\ [](\A t \in Tasks : yield_count[t] <= 1 /\ execute_calls[t] <= yield_count[t])
    /\ [][\A t \in Tasks :
            yield_count'[t] # yield_count[t] =>
                /\ task_status[t] = PENDING
                /\ task_status'[t] = SCHEDULED
                /\ wpc[t] = "new"]_vars

C21_Witness ==
    /\ RunOver
    /\ \A t \in Tasks : yield_count[t] = 1 /\ execute_calls[t] = 1
    /\ \E t \in Tasks : dependencies[t] # {}

\* C22: under Executor.run the step that yields a task submits it, once, to
\* the queue of the pool of its own tag and to no other; a queue holds only
\* tasks of its tag, each once; the executor holds at most one pool per tag,
\* and a pool appears only in the step that yields the first task of its tag.
Pools == Range(tag_to_thread_pool)

C22_TagRouting ==
    /\ [](ExecutorRun =>
            /\ Cardinality(Pools) = Len(tag_to_thread_pool)
            /\ \A g \in Pools : \E t \in Tasks : task_tag[t] = g /\ yield_count[t] > 0
            /\ \A g \in Tags :
                  /\ g \notin Pools => work_queue[g] = <<>>
                  /\ \A i \in DOMAIN work_queue[g], j \in DOMAIN work_queue[g] :
                        /\ task_tag[work_queue[g][i]] = g
                        /\ i # j => work_queue[g][i] # work_queue[g][j])
    /\ [][\A t \in Tasks :
            (ExecutorRun /\ yield_count'[t] # yield_count[t]) =>
                /\ task_tag[t] \in Pools'
                /\ work_queue'[task_tag[t]] = Append(work_queue[task_tag[t]], t)
                /\ \A g \in Tags \ {task_tag[t]} : work_queue'[g] = work_queue[g]
                /\ tag_to_thread_pool' = IF task_tag[t] \in Pools
                                          THEN tag_to_thread_pool
                                          ELSE Append(tag_to_thread_pool, task_tag[t])]_vars
    /\ [][tag_to_thread_pool' # tag_to_thread_pool =>
            \E t \in Tasks : yield_count'[t] # yield_count[t]]_vars

C22_Witness ==
    /\ ExecutorRun
    /\ tag_to_thread_pool = <<"default", "io">>
    /\ Len(work_queue["default"]) = 2
    /\ work_queue["io"] = <<"C">>

\* C23: under Executor.run a pool is shut down only when the iterator has
\* ended: nothing is PENDING, the last batch has been handed out and the
\* consumer is past the for-loop; a task is never submitted to a pool that is
\* shut down, so submit never raises.
C23_ShutdownAfterIteration ==
    /\ [](\A g \in Tags :
            pool_shutdown[g] =>
                /\ dpc \in {"shutdown", "join", "returned"}
                /\ ~SomePending
                /\ ready_tasks = <<>>)
    /\ [](raised # "RuntimeError")
    /\ [][\A t \in Tasks :
            yield_count'[t] # yield_count[t] => ~pool_shutdown[task_tag[t]]]_vars

C23_Witness ==
    /\ dpc = "join"
    /\ tag_to_thread_pool = <<"default", "io">>
    /\ pool_shutdown["default"] /\ ~pool_shutdown["io"]
    /\ work_queue["default"] # <<>>
    /\ \E t \in Tasks : task_status[t] = RUNNING

\* C24: under Executor.run the dispatcher can always hand out the next task
\* of a ready batch, whatever the tasks submitted before are doing; and the
\* oldest submission of a pool can start as soon as that pool has a free
\* thread, whatever the load of the other pools.  So independent tasks run at
\* the same time, and a task on another tag runs while a pool is saturated.
C24_NonBlockingDispatch ==
    ExecutorRun =>
        /\ dpc = "yield" => ENABLED yield_task
        /\ \A t \in Tasks :
              ( /\ work_queue[task_tag[t]] # <<>>
                /\ Head(work_queue[task_tag[t]]) = t
                /\ Cardinality(Active(task_tag[t])) < workers_per_tag )
              => ENABLED start(t)

C24_Witness ==
    /\ ExecutorRun
    /\ \A t \in Tasks : dependencies[t] = {} /\ task_status[t] = RUNNING
    /\ Cardinality(Active("default")) = workers_per_tag
    /\ Cardinality(Active("io")) = 1

\* C25: after any sequence of schedule calls, v is in the dependents of u if
\* and only if v is registered and u is among the dependencies recorded for v;
\* the dependencies recorded for v are those v declared; and every registered
\* task has one entry.
C25_GraphSymmetry ==
    /\ Cardinality(Registered) = Len(task_to_dependencies)
    /\ \A v \in Registered : Lookup(task_to_dependencies, v) = dependencies[v]
    /\ \A u \in Tasks, v \in Tasks :
          v \in task_to_dependents[u] <=>
              (v \in Registered /\ u \in Lookup(task_to_dependencies, v))

C25_Witness ==
    /\ Registered = Tasks
    /\ schedule_calls = MaxScheduleCalls
    /\ task_to_dependencies[1][2] # {}
    /\ \E u \in Tasks : Cardinality(task_to_dependents[u]) = 2

\* C26: whenever the consumer is blocked in Condition.wait, some task is
\* SCHEDULED or RUNNING or some thread is inside a callback with its
\* notify_all still to come; and with fair scheduling the consumer always
\* leaves the wait: it is never blocked forever.
Blocked == dpc \in {"wait", "woken"}

InFlight(t) == task_status[t] \in {SCHEDULED, RUNNING} \/ InCallback(t)

C26_NoLostWakeup ==
    /\ [](dpc = "wait" => (SomePending /\ \E t \in Tasks : InFlight(t)))
    /\ Blocked ~> ~Blocked

C26_Witness ==
    /\ dpc = "wait"
    /\ SomePending
    /\ \A t \in Tasks : task_status[t] \notin {SCHEDULED, RUNNING}
    /\ \E t \in Tasks : InCallback(t) /\ todo[t] = {}

\* C27: cancellation propagates only downstream. A callback of the scheduler
\* sets the cancel flag only of direct dependents of its task, which is
\* already FAILED or CANCELED, and no step of a callback changes a status;
\* a flag that the user did not set is set only by such a step; so a task
\* whose flag is set without a user cancel has a transitive prerequisite that
\* is FAILED or CANCELED: never a flag on a prerequisite, a sibling or an
\* unrelated task of the failure.
FlagsSet == {d \in Tasks : canceled_event'[d] /\ ~canceled_event[d]}

CallbackStep(t) == InCallback(t) /\ (todo'[t] # todo[t] \/ wpc'[t] # wpc[t])

C27_DownstreamOnly ==
    /\ [][\A t \in Tasks :
            CallbackStep(t) =>
                /\ task_status' = task_status
                /\ FlagsSet # {} => task_status[t] \in {FAILED, CANCELED}
                /\ FlagsSet \subseteq task_to_dependents[t]
                /\ \A d \in FlagsSet : t \in dependencies[d]]_vars
    /\ [][(FlagsSet # {} /\ user_cancelled' = user_cancelled) =>
            \E t \in Tasks : CallbackCancels(t)]_vars
    /\ [](\A d \in Tasks :
            (canceled_event[d] /\ d \notin user_cancelled) =>
                \E p \in Prerequisites(d) : task_status[p] \in {FAILED, CANCELED})

C27_Witness ==
    \E p \in Tasks, t \in Tasks, d \in Tasks :
        /\ dependencies[t] = {p} /\ dependencies[d] = {t}
        /\ task_status[p] = COMPLETED /\ task_status[t] = FAILED /\ wpc[t] = "done"
        /\ canceled_event[d] /\ task_status[d] = PENDING
        /\ ~canceled_event[p]
        /\ user_cancelled = {}

====
